---- MODULE Spec2Model ----
(***************************************************************************)
(* Authentication and session management of the Avro VS Code extension:    *)
(* validatePAT / verifyUserRole / authenticateUser (src/src/github/auth.ts),*)
(* SecureStorage (src/src/utils/secureStorage.ts), the quick-input sign-in  *)
(* (src/src/ui/authenticationDialog.ts), the AuthenticationPanel webview    *)
(* (src/src/github/auth.ts) and activate() with the avro.authenticate and   *)
(* avro.logout command handlers (src/unnamed/part_000, extension.ts).       *)
(*                                                                         *)
(* Every await of a handler that reaches the network or the storage host   *)
(* is a step boundary: other handlers may run between two steps.           *)
(***************************************************************************)
EXTENDS Integers, FiniteSets, Sequences, TLC

\* ------------------------------------------------------------------ bounds
\* Handler invocations (command handlers, panel message handlers) in flight.
MaxInFlight == 2
\* AuthenticationPanel objects that are live or still held by an invocation in
\* flight or by a pending timer.
MaxPanels == 1
\* The same, where only the panel is exercised.
MaxPanelObjects == 2
\* Items in a list given to filterItemsByRole or held by the provider.
MaxItems == 3

\* ------------------------------------------------------------------ values
\* JavaScript undefined / null: a missing value.
Absent == "absent"

\* Tokens the user may type; both pass the input box's prefix validation.
Tokens == {"ghp_T1", "ghp_T2"}

\* The login the identity endpoint reports for a token (the token's owner).
Owner(t) == IF t = "ghp_T1" THEN "alice" ELSE "bob"

Handles == {Owner(t) : t \in Tokens}

Roles == {"admin", "member"}

\* The organization the quick-input dialog hardcodes and the panel defaults to.
DefaultOrg == "avrocc"

\* Organization texts a user may type into the panel form, trimmed (Absent:
\* left empty).
PanelOrgInputs == {Absent, "acme"}

\* !!v of JavaScript for the values of this model.
Truthy(v) == v # Absent /\ v # ""

\* a || b of JavaScript.
OrElse(a, b) == IF Truthy(a) THEN a ELSE b

\* ------------------------------------------------------------- the network
\* What a fetch() of the identity endpoint can produce: a status with a body
\* ("json": the JSON the endpoint documents, "null": the JSON value null,
\* "invalid": a body response.json() rejects), or a transport failure.
IdentityResponses ==
    {[kind |-> "response", status |-> 200, body |-> b] : b \in {"json", "null", "invalid"}}
    \cup {[kind |-> "response", status |-> s, body |-> "json"] : s \in {401, 403, 500}}
    \cup {[kind |-> "throw", status |-> 0, body |-> "json"]}

\* status.toString() and the status interpolated into an error text.
StatusStringAlways401(s) == "401"

StatusString(s) ==
    CASE s = 200 -> "200" [] s = 401 -> "401" [] s = 403 -> "403"
      [] s = 404 -> "404" [] OTHER -> "500"

StatusError(s) ==
    CASE s = 200 -> "GitHub API returned status 200"
      [] s = 401 -> "GitHub API returned status 401"
      [] s = 403 -> "GitHub API returned status 403"
      [] s = 404 -> "GitHub API returned status 404"
      [] OTHER -> "GitHub API returned status 500"

NetworkError == "Network error: fetch failed"

\* validatePAT(pat) on a given outcome of its fetch.
ValidatePATWithoutUser(resp, pat) ==
    IF resp.kind = "response" /\ resp.status = 200 /\ resp.body # "invalid"
    THEN [success |-> TRUE, user |-> Absent, error |-> Absent, errorCode |-> Absent]
    ELSE [success |-> FALSE, user |-> Absent, error |-> NetworkError,
          errorCode |-> "NETWORK_ERROR"]

ValidatePAT(resp, pat) ==
    IF resp.kind = "throw" \/ (resp.status = 200 /\ resp.body = "invalid")
    THEN [success |-> FALSE, user |-> Absent, error |-> NetworkError,
          errorCode |-> "NETWORK_ERROR"]
    ELSE IF resp.status = 200
    THEN [success |-> TRUE,
          user |-> IF resp.body = "null" THEN Absent ELSE Owner(pat),
          error |-> Absent, errorCode |-> Absent]
    ELSE IF resp.status = 401
    THEN [success |-> FALSE, user |-> Absent,
          error |-> "Invalid or expired Personal Access Token", errorCode |-> "401"]
    ELSE [success |-> FALSE, user |-> Absent,
          error |-> StatusError(resp.status), errorCode |-> StatusString(resp.status)]

\* What a fetch() of the membership endpoint can produce.  A 200 carries a
\* membership with a role and a state; "other" is a role GitHub knows that the
\* extension does not (e.g. billing_manager).
MembershipRoles == Roles \cup {"other"}

MembershipStates == {"active", "pending"}

NoMembership == [role |-> Absent, state |-> Absent]

MembershipResponses ==
    {[kind |-> "response", status |-> 200, body |-> "json",
      membership |-> [role |-> r, state |-> s]] :
        r \in MembershipRoles, s \in MembershipStates}
    \cup {[kind |-> "response", status |-> 200, body |-> "invalid",
           membership |-> NoMembership]}
    \cup {[kind |-> "response", status |-> s, body |-> "json",
           membership |-> NoMembership] : s \in {401, 403, 404, 500}}
    \cup {[kind |-> "throw", status |-> 0, body |-> "json", membership |-> NoMembership]}

\* verifyUserRole lines 102-104: hasRequiredRole && isActive.
HasAccessIgnoresState(membership, requiredRoles) == membership.role \in requiredRoles

HasAccess(membership, requiredRoles) ==
    membership.role \in requiredRoles /\ membership.state = "active"

\* verifyUserRole lines 117-134: the error text of a status that is neither
\* 200 nor 404.
RoleStatusErrorSameFor403(status) ==
    IF status = 401 \/ status = 403
    THEN "Invalid Personal Access Token or insufficient permissions"
    ELSE StatusError(status)

RoleStatusError(status) ==
    IF status = 401
    THEN "Invalid Personal Access Token or insufficient permissions"
    ELSE IF status = 403
    THEN "Insufficient permissions. PAT must have read:org or admin:org scope"
    ELSE StatusError(status)

\* verifyUserRole(pat, org, username, requiredRoles) on a given fetch outcome.
VerifyUserRole(resp, requiredRoles) ==
    IF resp.kind = "throw" \/ (resp.status = 200 /\ resp.body = "invalid")
    THEN [success |-> FALSE, hasAccess |-> FALSE, membership |-> NoMembership,
          error |-> NetworkError]
    ELSE IF resp.status = 200
    THEN [success |-> TRUE,
          hasAccess |-> HasAccess(resp.membership, requiredRoles),
          membership |-> resp.membership, error |-> Absent]
    ELSE IF resp.status = 404
    THEN [success |-> TRUE, hasAccess |-> FALSE, membership |-> NoMembership,
          error |-> "User is not a member of this organization"]
    ELSE [success |-> FALSE, hasAccess |-> FALSE, membership |-> NoMembership,
          error |-> RoleStatusError(resp.status)]

\* The roles both sign-in paths require: ['admin', 'member'].
RequiredRoles == {"admin", "member"}

\* The result shape of authenticateUser.
AuthFailureWithoutError(e) ==
    [success |-> FALSE, user |-> Absent, role |-> Absent, error |-> Absent]

AuthFailure(e) == [success |-> FALSE, user |-> Absent, role |-> Absent, error |-> e]

NoResult == AuthFailure(Absent)

NoPatResult == [success |-> FALSE, user |-> Absent, error |-> Absent, errorCode |-> Absent]

\* authenticateUser, step 1: the early return after validatePAT.
PatFailedNever(patResult) == FALSE

PatFailed(patResult) == ~patResult.success \/ ~Truthy(patResult.user)

AuthAfterValidateInsufficientRole(patResult) ==
    AuthFailure("User does not have the required role in the organization")

AuthAfterValidate(patResult) ==
    AuthFailure(OrElse(patResult.error, "Failed to validate PAT"))

\* authenticateUser, step 2: the result once verifyUserRole has returned.
AuthAfterVerifyIgnoresAccess(login, roleResult) ==
    IF ~roleResult.success
    THEN AuthFailure(OrElse(roleResult.error, "Failed to verify user role"))
    ELSE [success |-> TRUE, user |-> login, role |-> roleResult.membership.role,
          error |-> Absent]

AuthAfterVerify(login, roleResult) ==
    IF ~roleResult.success
    THEN AuthFailure(OrElse(roleResult.error, "Failed to verify user role"))
    ELSE IF ~roleResult.hasAccess
    THEN AuthFailure(OrElse(roleResult.error,
                            "User does not have the required role in the organization"))
    ELSE [success |-> TRUE, user |-> login, role |-> roleResult.membership.role,
          error |-> Absent]

\* -------------------------------------------------------------------- state
VARIABLES
    store,                \* SecureStorage: the four persisted fields
    bootPc,               \* where activate() is
    boot,                 \* activate()'s locals
    isUserAuthenticated,  \* the module-level flag of extension.ts
    provider,             \* ItemsProvider: isAuthenticated, authenticatedUser, userRole
    threads,              \* the handler invocations in flight
    panels,               \* each AuthenticationPanel: "closed", "live", "cancelled"
    currentPanel,         \* AuthenticationPanel.currentPanel (0: undefined)
    timers,               \* panels with a pending setTimeout(() => this.dispose(), 1500)
    served,               \* the root listing getChildren() last gave the tree view
    call                  \* a direct call of one function of the core

vars == <<store, bootPc, boot, isUserAuthenticated, provider, threads, panels,
          currentPanel, timers, served, call>>

ThreadIds == 1..MaxInFlight

\* The panel objects the window has room for.
PanelIds == DOMAIN panels

Fields == {"pat", "org", "user", "role"}

EmptyStore == [pat |-> Absent, org |-> Absent, user |-> Absent, role |-> Absent]

\* SecureStorage.isAuthenticated().
IsAuthenticatedTokenOnly(s) == Truthy(s.pat)

IsAuthenticated(s) == Truthy(s.pat) /\ Truthy(s.user)

\* SecureStorage.clearAll(): its four awaited writes in order, as the
\* position after each.
ClearAllNextSkipsUser(pc) ==
    CASE pc = "deletePAT" -> "clearOrg"
      [] pc = "clearOrg" -> "clearRole"
      [] pc = "clearUser" -> "clearRole"
      [] OTHER -> "finish"

ClearAllNext(pc) ==
    CASE pc = "deletePAT" -> "clearOrg"
      [] pc = "clearOrg" -> "clearUser"
      [] pc = "clearUser" -> "clearRole"
      [] OTHER -> "finish"

ClearAllFieldRoleTwice(pc) ==
    CASE pc = "deletePAT" -> "pat"
      [] pc = "clearOrg" -> "org"
      [] OTHER -> "role"

ClearAllField(pc) ==
    CASE pc = "deletePAT" -> "pat"
      [] pc = "clearOrg" -> "org"
      [] pc = "clearUser" -> "user"
      [] OTHER -> "role"

ClearAllPcs == {"deletePAT", "clearOrg", "clearUser", "clearRole"}

\* ItemsProvider's fields after construction and after setAuthenticationState.
NewProvider == [isAuthenticated |-> FALSE, authenticatedUser |-> Absent, userRole |-> Absent]

SetAuthenticationStateDropsRole(isAuth, username, role) ==
    [isAuthenticated |-> isAuth, authenticatedUser |-> username, userRole |-> Absent]

SetAuthenticationState(isAuth, username, role) ==
    [isAuthenticated |-> isAuth, authenticatedUser |-> username, userRole |-> role]

\* activate()'s locals, with the count of the restores (lines 17-36) this
\* activation has run and of the network calls the restore has made.
NoBoot == [isAuthenticated |-> FALSE, storedUser |-> Absent, storedOrg |-> Absent,
           storedRole |-> Absent, pat |-> Absent, validated |-> "none",
           restores |-> 0, idCalls |-> 0, roleCalls |-> 0]

\* A free slot for a handler invocation.
Idle == [kind |-> "idle", pc |-> "idle", pat |-> Absent, org |-> Absent,
         patResult |-> NoPatResult, auth |-> NoResult, idCalls |-> 0,
         roleCalls |-> 0, panel |-> 0]

SignInKinds == {"authenticate", "panel"}

StorePcs == {"storePAT", "storeOrganization", "storeUser", "storeRole"}

Quiescent == \A t \in ThreadIds : threads[t] = Idle

\* The lowest free slot takes the next invocation.
FreeSlot(t) ==
    /\ threads[t] = Idle
    /\ \A u \in ThreadIds : u < t => threads[u] # Idle

\* A handler that has run to its end holds on to nothing but its result.
Done(th) == [th EXCEPT !.pc = "done", !.pat = Absent, !.org = Absent, !.panel = 0]

\* ItemsProvider.initializeItems (lines 48-77): the root items, in the
\* insertion order of the map.
\* An itemType is the sequence of the pieces of its text: 'admin-only-folder'
\* is <<"admin", "-", "only", "-", "folder">>.
InitialItems ==
    <<[id |-> "folder-1", itemType |-> <<"folder">>],
      [id |-> "folder-2", itemType |-> <<"folder">>],
      [id |-> "item-3", itemType |-> <<"item">>]>>

\* Item.children of the items initializeItems creates, as the element's id
\* gives them; children are fixed at construction (readonly).
Children(id) ==
    IF id = "folder-1"
    THEN <<[id |-> "file-1", itemType |-> <<"file">>],
           [id |-> "file-2", itemType |-> <<"file">>]>>
    ELSE IF id = "folder-2"
    THEN <<[id |-> "action-1", itemType |-> <<"action">>],
           [id |-> "action-2", itemType |-> <<"action">>]>>
    ELSE << >>

\* The ids of the items the tree shows to a user with a role: the root items
\* and the children of the folders.
DisplayedIds ==
    {InitialItems[i].id : i \in 1..Len(InitialItems)}
    \cup UNION {{Children(InitialItems[i].id)[j].id :
                    j \in 1..Len(Children(InitialItems[i].id))} :
                 i \in 1..Len(InitialItems)}

\* ItemsProvider.deleteItem (lines 175-177): this.items.delete(id) on the
\* map of the root items; the other items keep their order.
DeleteItem(items, id) ==
    LET Keep(item) == item.id # id IN SelectSeq(items, Keep)

\* String.prototype.includes: pattern occurs in text at some position.
Includes(text, pattern) ==
    \E i \in 0..(Len(text) - Len(pattern)) :
        SubSeq(text, i + 1, i + Len(pattern)) = pattern

\* The text 'admin-only'.
AdminOnly == <<"admin", "-", "only">>

\* item.itemType?.includes('admin-only') (line 114).
IncludesAdminOnlyExactMatch(itemType) == itemType = AdminOnly

IncludesAdminOnly(itemType) == Includes(itemType, AdminOnly)

\* ItemsProvider.filterItemsByRole.
FilterItemsByRoleDefaultsToAll(items, userRole) ==
    IF userRole = "member"
    THEN LET Keep(item) == ~IncludesAdminOnly(item.itemType) IN SelectSeq(items, Keep)
    ELSE items

FilterItemsByRoleAdminFiltered(items, userRole) ==
    IF userRole \in {"admin", "member"}
    THEN LET Keep(item) == ~IncludesAdminOnly(item.itemType) IN SelectSeq(items, Keep)
    ELSE << >>

FilterItemsByRole(items, userRole) ==
    IF userRole = "admin" THEN items
    ELSE IF userRole = "member"
    THEN LET Keep(item) == ~IncludesAdminOnly(item.itemType) IN SelectSeq(items, Keep)
    ELSE << >>

\* getChildren() for the root, as the ids of the items it returns.
RootChildren(p) ==
    IF ~p.isAuthenticated THEN <<"empty-state">>
    ELSE <<"user-status">>
         \o [i \in 1..Len(FilterItemsByRole(InitialItems, p.userRole)) |->
               FilterItemsByRole(InitialItems, p.userRole)[i].id]

\* getChildren(element) over a provider whose items map holds items: the
\* children of an element (lines 129-132), or the root listing (lines
\* 134-172) with its 'empty' placeholder or its 'user-status' item.
\* The placeholder and the user-status item carry the command they run.
GetChildrenOfPlaceholderWithItems(p, items, element) ==
    IF element # Absent THEN FilterItemsByRole(items, p.userRole)
    ELSE IF ~p.isAuthenticated
    THEN <<[id |-> "empty-state", itemType |-> <<"empty">>,
            command |-> "avro.authenticate"]>>
         \o FilterItemsByRole(items, p.userRole)
    ELSE <<[id |-> "user-status", itemType |-> <<"user", "-", "status">>,
            command |-> "avro.logout"]>>
         \o FilterItemsByRole(items, p.userRole)

GetChildrenOf(p, items, element) ==
    IF element # Absent THEN FilterItemsByRole(items, p.userRole)
    ELSE IF ~p.isAuthenticated
    THEN <<[id |-> "empty-state", itemType |-> <<"empty">>,
            command |-> "avro.authenticate"]>>
    ELSE <<[id |-> "user-status", itemType |-> <<"user", "-", "status">>,
            command |-> "avro.logout"]>>
         \o FilterItemsByRole(items, p.userRole)

\* The item types a caller may give an item.
ItemTypes ==
    {<<"folder">>, AdminOnly, AdminOnly \o <<"-", "folder">>,
     <<"folder", "-">> \o AdminOnly, <<"admin", "-", "folder">>}

ItemIds == <<"item-1", "item-2", "item-3", "item-4", "item-5">>

\* Every list of at most MaxItems items, the i-th with the i-th id.
ItemLists ==
    UNION {{[i \in 1..n |-> [id |-> ItemIds[i], itemType |-> types[i]]] :
              types \in [1..n -> ItemTypes]} : n \in 0..MaxItems}

\* The fields of an ItemsProvider when one of its methods is called.
ProviderInputs ==
    [isAuthenticated : BOOLEAN, authenticatedUser : {Absent, "alice"},
     userRole : Roles \cup {Absent}]

\* A request sent to GitHub: the endpoint, the token of the Authorization
\* header, and the organization and login of the membership URL.
IdentityRequest(pat) ==
    [endpoint |-> "user", token |-> pat, org |-> Absent, login |-> Absent]

MembershipRequestForToken(pat, org, login) ==
    [endpoint |-> "membership", token |-> pat, org |-> org, login |-> pat]

MembershipRequest(pat, org, login) ==
    [endpoint |-> "membership", token |-> pat, org |-> org, login |-> login]

\* Nothing has been given to the tree view yet.
NotServed == << >>

\* No fetch has been made.
NoIdentityResponse == [kind |-> "none", status |-> 0, body |-> "json"]

NoMembershipResponse ==
    [kind |-> "none", status |-> 0, body |-> "json", membership |-> NoMembership]

NoRoleResult ==
    [success |-> FALSE, hasAccess |-> FALSE, membership |-> NoMembership, error |-> Absent]

\* The error texts of auth.ts as the sequences of their pieces, so that
\* String.prototype.includes can search them.
ErrorText(e) ==
    CASE e = "Invalid or expired Personal Access Token" ->
           <<"Invalid", " ", "or", " ", "expired", " ", "Personal", " ", "Access",
             " ", "Token">>
      [] e = "GitHub API returned status 200" ->
           <<"GitHub", " ", "API", " ", "returned", " ", "status", " ", "200">>
      [] e = "GitHub API returned status 401" ->
           <<"GitHub", " ", "API", " ", "returned", " ", "status", " ", "401">>
      [] e = "GitHub API returned status 403" ->
           <<"GitHub", " ", "API", " ", "returned", " ", "status", " ", "403">>
      [] e = "GitHub API returned status 404" ->
           <<"GitHub", " ", "API", " ", "returned", " ", "status", " ", "404">>
      [] e = "GitHub API returned status 500" ->
           <<"GitHub", " ", "API", " ", "returned", " ", "status", " ", "500">>
      [] e = "Network error: fetch failed" ->
           <<"Network", " ", "error", ":", " ", "fetch", " ", "failed">>
      [] e = "Failed to validate PAT" ->
           <<"Failed", " ", "to", " ", "validate", " ", "PAT">>
      [] e = "User is not a member of this organization" ->
           <<"User", " ", "is", " ", "not", " ", "a", " ", "member", " ", "of", " ",
             "this", " ", "organization">>
      [] e = "Invalid Personal Access Token or insufficient permissions" ->
           <<"Invalid", " ", "Personal", " ", "Access", " ", "Token", " ", "or", " ",
             "insufficient", " ", "permissions">>
      [] e = "Insufficient permissions. PAT must have read:org or admin:org scope" ->
           <<"Insufficient", " ", "permissions", ".", " ", "PAT", " ", "must", " ",
             "have", " ", "read:org", " ", "or", " ", "admin:org", " ", "scope">>
      [] e = "Failed to verify user role" ->
           <<"Failed", " ", "to", " ", "verify", " ", "user", " ", "role">>
      [] e = "User does not have the required role in the organization" ->
           <<"User", " ", "does", " ", "not", " ", "have", " ", "the", " ",
             "required", " ", "role", " ", "in", " ", "the", " ", "organization">>
      [] e = "Authentication failed" ->
           <<"Authentication", " ", "failed">>

\* getDetailedErrorMessage(error, org, pat): which of its six messages it
\* returns, and the text it appends as Details.
GetDetailedErrorMessage(error, org) ==
    LET baseError == OrElse(error, "Authentication failed")
        text == ErrorText(baseError)
        Has(pattern) == Includes(text, pattern)
    IN [details |-> baseError,
        org |-> org,
        message |->
          IF Has(<<"401">>) \/ Has(<<"Unauthorized">>) THEN "Invalid Personal Access Token"
          ELSE IF Has(<<"404">>) \/ Has(<<"Not", " ", "Found">>)
          THEN "Organization not found"
          ELSE IF Has(<<"403">>) \/ Has(<<"Forbidden">>) THEN "Access denied"
          ELSE IF Has(<<"timeout">>) \/ Has(<<"ECONNREFUSED">>) THEN "Network error"
          ELSE IF Has(<<"member", "ship">>) \/ Has(<<"member">>)
          THEN "You are not a member"
          ELSE "Troubleshooting"]

NoDetail == [details |-> Absent, org |-> Absent, message |-> "none"]

\* The text of a message field as the sequence of its pieces; the piece " "
\* is white space.  String.prototype.trim drops the white space at both ends.
RECURSIVE TrimStart(_)
TrimStart(text) ==
    IF text # << >> /\ Head(text) = " " THEN TrimStart(Tail(text)) ELSE text

RECURSIVE TrimEnd(_)
TrimEnd(text) ==
    IF text # << >> /\ text[Len(text)] = " "
    THEN TrimEnd(SubSeq(text, 1, Len(text) - 1)) ELSE text

\* The string a trimmed text is: "" when nothing is left.  The texts of this
\* model hold at most one piece that is not white space.
TrimKeepsWhiteSpace(text) ==
    IF text = << >> THEN "" ELSE text[1]

Trim(text) ==
    LET rest == TrimEnd(TrimStart(text))
    IN IF rest = << >> THEN "" ELSE rest[1]

\* message.pat?.trim() and message.org?.trim() (lines 298-299): a field the
\* message does not have gives undefined.
TrimmedField(message, field) ==
    IF field \in message.has THEN Trim(message[field]) ELSE Absent

\* The 'authenticate' messages a webview may post.
PatTexts == {<< >>, <<" ">>, <<" ", " ">>, <<"ghp_T1">>, <<" ", "ghp_T2", " ">>}

OrgTexts == {<< >>, <<" ">>, <<"acme">>, <<" ", "acme">>}

PanelMessages ==
    [has : SUBSET {"pat", "org"}, pat : PatTexts, org : OrgTexts]

NoMessage == [has |-> {}, pat |-> << >>, org |-> << >>]

\* A direct call of validatePAT, verifyUserRole, authenticateUser,
\* SecureStorage.isAuthenticated, filterItemsByRole or getChildren: its
\* arguments, the responses its fetches got, what it returned, whether it
\* threw, and the fetches it made (their count and the requests in order).
\* For a function called a second time, the response and the result of the
\* first call are kept in the prev fields.  For a message given to the
\* panel's _handleMessage: the message and what the handler posted back.
\* For showSignInWebView: the state of its webview panel and its result.
\* For an authenticateUser that failed: the message showAuthenticationDialog
\* makes of its error.
\* For deleteItem: the id given, the items map of the provider, and the
\* element and the result of the getChildren call that follows.
NoCall ==
    [fn |-> "none", pc |-> "none", pat |-> Absent, org |-> Absent,
     requiredRoles |-> {}, items |-> << >>, element |-> Absent,
     idResp |-> NoIdentityResponse, roleResp |-> NoMembershipResponse,
     patResult |-> NoPatResult, roleResult |-> NoRoleResult, auth |-> NoResult,
     isAuth |-> FALSE, children |-> << >>, threw |-> FALSE, fetches |-> 0,
     log |-> << >>, again |-> FALSE, prevIdResp |-> NoIdentityResponse,
     prevPatResult |-> NoPatResult, prevChildren |-> << >>,
     message |-> NoMessage, posted |-> << >>, webview |-> "none",
     result |-> FALSE, id |-> Absent, detail |-> NoDetail]

\* The calls a caller may make: any token, any set of required roles.
CallInputs ==
    {[NoCall EXCEPT !.fn = "validatePAT", !.pc = "called", !.pat = p] : p \in Tokens}
    \cup {[NoCall EXCEPT !.fn = f, !.pc = "called", !.pat = p, !.org = DefaultOrg,
                          !.requiredRoles = rr] :
             f \in {"verifyUserRole", "authenticateUser"}, p \in Tokens,
             rr \in SUBSET Roles}
    \cup {[NoCall EXCEPT !.fn = "isAuthenticated", !.pc = "called"]}
    \cup {[NoCall EXCEPT !.fn = "filterItemsByRole", !.pc = "called", !.items = l] :
             l \in ItemLists}
    \cup {[NoCall EXCEPT !.fn = "getChildren", !.pc = "called", !.items = l,
                          !.element = e] :
             l \in ItemLists, e \in {Absent, "folder-1"}}
    \cup {[NoCall EXCEPT !.fn = "_handleMessage", !.pc = "called", !.message = m] :
             m \in PanelMessages}
    \cup {[NoCall EXCEPT !.fn = "showSignInWebView", !.pc = "called"]}
    \cup {[NoCall EXCEPT !.fn = "deleteItem", !.pc = "called", !.items = InitialItems,
                          !.id = i] : i \in DisplayedIds}

\* What the secret storage and the global state may hold when
\* isAuthenticated() is called: each field absent, empty or set.
StoreInputs ==
    [pat : Tokens \cup {Absent, ""}, org : {Absent, DefaultOrg},
     user : Handles \cup {Absent, ""}, role : Roles \cup {Absent}]

Init ==
    /\ store = EmptyStore
    /\ bootPc = "read"
    /\ boot = NoBoot
    /\ isUserAuthenticated = FALSE
    /\ provider = NewProvider
    /\ threads = [t \in ThreadIds |-> Idle]
    /\ panels = [p \in 1..MaxPanels |-> "closed"]
    /\ currentPanel = 0
    /\ timers = {}
    /\ served = NotServed
    /\ call = NoCall

\* What the secret storage and the global state may hold when a window opens:
\* any token, organization, handle and role, each present or not.
StoreContents ==
    [pat : Tokens \cup {Absent}, org : {Absent, DefaultOrg, "acme"},
     user : Handles \cup {Absent}, role : Roles \cup {Absent}]

InitAnyStore ==
    /\ store \in StoreContents
    /\ bootPc = "read"
    /\ boot = NoBoot
    /\ isUserAuthenticated = FALSE
    /\ provider = NewProvider
    /\ threads = [t \in ThreadIds |-> Idle]
    /\ panels = [p \in 1..MaxPanels |-> "closed"]
    /\ currentPanel = 0
    /\ timers = {}
    /\ served = NotServed
    /\ call = NoCall

\* A window whose activation has completed over an empty store, before any
\* panel is created.
InitPanels ==
    /\ store = EmptyStore
    /\ bootPc = "done"
    /\ boot = [NoBoot EXCEPT !.restores = 1]
    /\ isUserAuthenticated = FALSE
    /\ provider = NewProvider
    /\ threads = [t \in ThreadIds |-> Idle]
    /\ panels = [p \in 1..MaxPanelObjects |-> "closed"]
    /\ currentPanel = 0
    /\ timers = {}
    /\ served = NotServed
    /\ call = NoCall

\* The functions of the core called directly, before anything is activated.
InitCalls ==
    /\ call \in CallInputs
    /\ store \in (IF call.fn = "isAuthenticated" THEN StoreInputs
                  ELSE IF call.fn = "_handleMessage"
                  THEN {EmptyStore, [pat |-> "ghp_T1", org |-> DefaultOrg,
                                     user |-> "alice", role |-> "member"]}
                  ELSE {EmptyStore})
    /\ bootPc = "read"
    /\ boot = NoBoot
    /\ isUserAuthenticated = FALSE
    /\ provider \in (IF call.fn \in {"filterItemsByRole", "getChildren"}
                      THEN ProviderInputs
                      ELSE IF call.fn = "deleteItem"
                      THEN {q \in ProviderInputs :
                              q.isAuthenticated /\ q.authenticatedUser # Absent
                              /\ q.userRole # Absent}
                      ELSE {NewProvider})
    /\ threads = [t \in ThreadIds |-> Idle]
    /\ panels = [p \in 1..MaxPanels |->
                    IF call.fn = "_handleMessage" /\ p = 1 THEN "live" ELSE "closed"]
    /\ currentPanel = IF call.fn = "_handleMessage" THEN 1 ELSE 0
    /\ timers = {}
    /\ served = NotServed

\* -------------------------------------------------------------- activate()
\* Lines 22-25: the stored token is checked only when isAuthenticated() was
\* true and a handle and a token were read.
BootNextPcAlwaysValidates(isAuth, storedUser, pat) == "validatePAT"

BootNextPc(isAuth, storedUser, pat) ==
    IF isAuth /\ Truthy(storedUser) /\ Truthy(pat) THEN "validatePAT"
    ELSE "createProvider"

\* Lines 16-25: isAuthenticated(), getUser(), getOrganization(), getRole(),
\* and getPAT() when a session is recorded.  No handler is registered yet, so
\* nothing runs between these reads.
BootRead ==
    /\ bootPc = "read"
    /\ LET isAuth == IsAuthenticated(store)
           enter == isAuth /\ Truthy(store.user)
       IN /\ boot' = [isAuthenticated |-> isAuth, storedUser |-> store.user,
                      storedOrg |-> store.org, storedRole |-> store.role,
                      pat |-> IF enter THEN store.pat ELSE Absent,
                      validated |-> "none", restores |-> boot.restores + 1,
                      idCalls |-> 0, roleCalls |-> 0]
          /\ bootPc' = BootNextPc(isAuth, store.user, store.pat)
    /\ UNCHANGED <<store, isUserAuthenticated, provider, threads, panels,
                   currentPanel, timers,
                   call, served>>

\* Lines 26-34: the stored token is checked; any failure leads to clearAll().
BootKeepsOnNetworkError(result) == result.success \/ result.errorCode = "NETWORK_ERROR"

BootKeeps(result) == result.success

BootValidate ==
    /\ bootPc = "validatePAT"
    /\ \E resp \in IdentityResponses :
         LET result == ValidatePAT(resp, boot.pat)
         IN /\ boot' = [boot EXCEPT !.validated =
                                         IF result.success THEN "ok" ELSE "failed",
                                     !.idCalls = @ + 1]
            /\ IF BootKeeps(result)
               THEN /\ isUserAuthenticated' = TRUE
                    /\ bootPc' = "createProvider"
               ELSE /\ bootPc' = "clearAll"
                    /\ UNCHANGED isUserAuthenticated
    /\ UNCHANGED <<store, provider, threads, panels, currentPanel, timers,
                   call, served>>

\* Line 26: the fetch of validatePAT (auth.ts lines 36-43) is given no abort
\* signal and no timer: when the endpoint never answers, the promise
\* activate() awaits never settles.
BootHang ==
    /\ bootPc = "validatePAT"
    /\ bootPc' = "hung"
    /\ boot' = [boot EXCEPT !.idCalls = @ + 1]
    /\ UNCHANGED <<store, isUserAuthenticated, provider, threads, panels,
                   currentPanel, timers, call, served>>

\* Line 32: clearAll(), its four writes with nothing in between.
BootClearAll ==
    /\ bootPc = "clearAll"
    /\ store' = [f \in Fields |-> Absent]
    /\ bootPc' = "createProvider"
    /\ UNCHANGED <<boot, isUserAuthenticated, provider, threads, panels,
                   currentPanel, timers,
                   call, served>>

\* Lines 38-79: the provider is created with the values read at lines 17-20,
\* and the commands are registered.
BootCreateProvider ==
    /\ bootPc = "createProvider"
    /\ provider' = SetAuthenticationState(isUserAuthenticated, boot.storedUser,
                                          boot.storedRole)
    /\ bootPc' = "done"
    /\ boot' = [NoBoot EXCEPT !.restores = boot.restores]
    /\ UNCHANGED <<store, isUserAuthenticated, threads, panels, currentPanel, timers,
                   call, served>>

\* The window is reloaded between operations: the process state is rebuilt,
\* the persisted store is kept.
Reload ==
    /\ bootPc \in {"done", "hung"}
    /\ Quiescent
    /\ bootPc' = "read"
    /\ boot' = NoBoot
    /\ isUserAuthenticated' = FALSE
    /\ provider' = NewProvider
    /\ panels' = [p \in PanelIds |-> "closed"]
    /\ currentPanel' = 0
    /\ timers' = {}
    /\ served' = NotServed
    /\ UNCHANGED <<store, threads, call>>

\* ------------------------------------------------- the sign-in handlers
\* What a sign-in path does once authenticateUser has returned: the dialog
\* (lines 90-103) returns on !result.success and on !result.user, the panel
\* (line 317) stores only on success && user && role.
AfterAuthAlwaysStores(kind, auth) == TRUE

AfterAuthStores(kind, auth) ==
    IF kind = "authenticate"
    THEN ~(~auth.success \/ ~Truthy(auth.user))
    ELSE auth.success /\ Truthy(auth.user) /\ Truthy(auth.role)

\* The thread once authenticateUser has returned auth.
AfterAuth(th, auth) ==
    IF AfterAuthStores(th.kind, auth)
    THEN [th EXCEPT !.auth = auth, !.pc = "storePAT"]
    ELSE Done([th EXCEPT !.auth = auth])

\* The value each storing step of a sign-in writes (dialog lines 106-110,
\* panel lines 319-322).
StoredValueUserIsToken(pc, th) ==
    CASE pc = "storePAT" -> th.pat
      [] pc = "storeOrganization" -> th.org
      [] pc = "storeUser" -> th.pat
      [] OTHER -> th.auth.role

StoredValue(pc, th) ==
    CASE pc = "storePAT" -> th.pat
      [] pc = "storeOrganization" -> th.org
      [] pc = "storeUser" -> th.auth.user
      [] OTHER -> th.auth.role

StoredField(pc) ==
    CASE pc = "storePAT" -> "pat"
      [] pc = "storeOrganization" -> "org"
      [] pc = "storeUser" -> "user"
      [] OTHER -> "role"

StoreNextSkipsOrganization(pc) ==
    CASE pc = "storePAT" -> "storeUser"
      [] pc = "storeOrganization" -> "storeUser"
      [] pc = "storeUser" -> "storeRole"
      [] OTHER -> "finish"

StoreNext(pc) ==
    CASE pc = "storePAT" -> "storeOrganization"
      [] pc = "storeOrganization" -> "storeUser"
      [] pc = "storeUser" -> "storeRole"
      [] OTHER -> "finish"

\* The avro.authenticate command is run: showAuthenticationDialog opens the
\* input box (extension.ts line 54, authenticationDialog.ts line 54).
StartAuthenticate(t) ==
    /\ bootPc = "done"
    /\ FreeSlot(t)
    /\ threads' = [threads EXCEPT ![t] =
                     [Idle EXCEPT !.kind = "authenticate", !.pc = "showInputBox"]]
    /\ UNCHANGED <<store, bootPc, boot, isUserAuthenticated, provider, panels,
                   currentPanel, timers,
                   call, served>>

\* authenticationDialog.ts lines 54-71: the user accepts a token or dismisses
\* the box; a dismissal returns {success: false, error: 'Cancelled'}.
AuthPrompt(t) ==
    /\ threads[t].kind = "authenticate"
    /\ threads[t].pc = "showInputBox"
    /\ \E input \in Tokens \cup {Absent} :
         threads' = [threads EXCEPT ![t] =
            IF ~Truthy(input)
            THEN Done([@ EXCEPT !.auth = AuthFailure("Cancelled")])
            ELSE [@ EXCEPT !.pc = "validatePAT", !.pat = input, !.org = DefaultOrg]]
    /\ UNCHANGED <<store, bootPc, boot, isUserAuthenticated, provider, panels,
                   currentPanel, timers,
                   call, served>>

\* authenticateUser lines 157-164, in either sign-in path.
AuthValidate(t) ==
    /\ threads[t].kind \in SignInKinds
    /\ threads[t].pc = "validatePAT"
    /\ \E resp \in IdentityResponses :
         LET patResult == ValidatePAT(resp, threads[t].pat)
             th == [threads[t] EXCEPT !.idCalls = @ + 1, !.patResult = patResult]
         IN threads' = [threads EXCEPT ![t] =
              IF PatFailed(patResult)
              THEN AfterAuth(th, AuthAfterValidate(patResult))
              ELSE [th EXCEPT !.pc = "verifyUserRole"]]
    /\ UNCHANGED <<store, bootPc, boot, isUserAuthenticated, provider, panels,
                   currentPanel, timers,
                   call, served>>

\* authenticateUser lines 166-187, then the caller's test of the result.
AuthVerify(t) ==
    /\ threads[t].kind \in SignInKinds
    /\ threads[t].pc = "verifyUserRole"
    /\ \E resp \in MembershipResponses :
         LET th == [threads[t] EXCEPT !.roleCalls = @ + 1]
             auth == AuthAfterVerify(th.patResult.user,
                                     VerifyUserRole(resp, RequiredRoles))
         IN threads' = [threads EXCEPT ![t] = AfterAuth(th, auth)]
    /\ UNCHANGED <<store, bootPc, boot, isUserAuthenticated, provider, panels,
                   currentPanel, timers,
                   call, served>>

\* One awaited write of a sign-in: storePAT, storeOrganization, storeUser,
\* storeRole.  The dialog skips storeRole when the result has no role.
Store(t) ==
    /\ threads[t].kind \in SignInKinds
    /\ threads[t].pc \in StorePcs
    /\ LET th == threads[t]
           skip == th.kind = "authenticate" /\ th.pc = "storeRole"
                   /\ ~Truthy(th.auth.role)
       IN /\ store' = IF skip THEN store
                      ELSE [store EXCEPT ![StoredField(th.pc)] = StoredValue(th.pc, th)]
          /\ threads' = [threads EXCEPT ![t].pc = StoreNext(th.pc)]
    /\ UNCHANGED <<bootPc, boot, isUserAuthenticated, provider, panels,
                   currentPanel, timers,
                   call, served>>

\* extension.ts lines 56-66: the dialog returned success; the role is read
\* back from the store and the display is updated.
AuthenticateFinishKeepsShownRole(t) ==
    /\ threads[t].kind = "authenticate"
    /\ threads[t].pc = "finish"
    /\ isUserAuthenticated' = TRUE
    /\ provider' = SetAuthenticationState(TRUE, threads[t].auth.user,
                        IF provider.isAuthenticated THEN provider.userRole
                        ELSE store.role)
    /\ threads' = [threads EXCEPT ![t] = Done(@)]
    /\ UNCHANGED <<store, bootPc, boot, panels, currentPanel, timers,
                   call, served>>

AuthenticateFinish(t) ==
    /\ threads[t].kind = "authenticate"
    /\ threads[t].pc = "finish"
    /\ isUserAuthenticated' = TRUE
    /\ provider' = SetAuthenticationState(TRUE, threads[t].auth.user, store.role)
    /\ threads' = [threads EXCEPT ![t] = Done(@)]
    /\ UNCHANGED <<store, bootPc, boot, panels, currentPanel, timers,
                   call, served>>

\* auth.ts lines 324-341: the panel reports success and schedules its own
\* dispose().  On a panel disposed meanwhile, this._panel.webview throws
\* before the timer is set.
PanelFinish(t) ==
    /\ threads[t].kind = "panel"
    /\ threads[t].pc = "finish"
    /\ timers' = IF panels[threads[t].panel] = "live"
                 THEN timers \cup {threads[t].panel} ELSE timers
    /\ threads' = [threads EXCEPT ![t] = Done(@)]
    /\ UNCHANGED <<store, bootPc, boot, isUserAuthenticated, provider, panels,
                   currentPanel,
                   call, served>>

\* The handler's promise settles.
Return(t) ==
    /\ threads[t].pc = "done"
    /\ threads' = [threads EXCEPT ![t] = Idle]
    /\ UNCHANGED <<store, bootPc, boot, isUserAuthenticated, provider, panels,
                   currentPanel, timers,
                   call, served>>

\* ------------------------------------------------------------ avro.logout
\* extension.ts lines 72-73: the command is run and clearAll() is called.
StartLogout(t) ==
    /\ bootPc = "done"
    /\ FreeSlot(t)
    /\ threads' = [threads EXCEPT ![t] =
                     [Idle EXCEPT !.kind = "logout", !.pc = "deletePAT"]]
    /\ UNCHANGED <<store, bootPc, boot, isUserAuthenticated, provider, panels,
                   currentPanel, timers,
                   call, served>>

\* secureStorage.ts lines 80-83: one awaited write of clearAll().
LogoutClear(t) ==
    /\ threads[t].kind = "logout"
    /\ threads[t].pc \in ClearAllPcs
    /\ store' = [store EXCEPT ![ClearAllField(threads[t].pc)] = Absent]
    /\ threads' = [threads EXCEPT ![t].pc = ClearAllNext(threads[t].pc)]
    /\ UNCHANGED <<bootPc, boot, isUserAuthenticated, provider, panels,
                   currentPanel, timers,
                   call, served>>

\* extension.ts lines 74-77.
LogoutFinish(t) ==
    /\ threads[t].kind = "logout"
    /\ threads[t].pc = "finish"
    /\ isUserAuthenticated' = FALSE
    /\ provider' = SetAuthenticationState(FALSE, Absent, Absent)
    /\ threads' = [threads EXCEPT ![t] = Done(@)]
    /\ UNCHANGED <<store, bootPc, boot, panels, currentPanel, timers,
                   call, served>>

\* ------------------------------------------------- AuthenticationPanel
\* A panel object something still refers to.
Held(p) ==
    \/ panels[p] = "live"
    \/ p \in timers
    \/ \E t \in ThreadIds : threads[t].panel = p

\* dispose() of panel p (auth.ts lines 683-695); how records whether the
\* user's 'cancel' message disposed it.
Dispose(p, how) ==
    /\ currentPanel' = 0
    /\ panels' = [panels EXCEPT ![p] = IF @ = "live" THEN how ELSE @]

\* createOrShow (lines 219-254): the current panel is revealed, or a new one
\* is created.
CreateOrShow ==
    /\ bootPc = "done"
    /\ IF currentPanel # 0
       THEN UNCHANGED <<panels, currentPanel>>
       ELSE \E p \in PanelIds :
              /\ ~Held(p)
              /\ \A q \in PanelIds : q < p => Held(q)
              /\ panels' = [panels EXCEPT ![p] = "live"]
              /\ currentPanel' = p
    /\ UNCHANGED <<store, bootPc, boot, isUserAuthenticated, provider, threads, timers,
                   call, served>>

\* _handleMessage, type 'authenticate' (lines 298-311): org and pat are
\* trimmed; an empty pat is answered with an error.
HandleAuthenticate(p, t, org, pat) ==
    IF ~Truthy(pat)
    THEN threads
    ELSE [threads EXCEPT ![t] =
            [Idle EXCEPT !.kind = "panel", !.pc = "validatePAT", !.pat = pat,
                         !.org = OrElse(org, DefaultOrg), !.panel = p]]

\* The handler run on a message whose trimmed fields are orgInput and
\* patInput.
PanelAuthenticate(p, t) ==
    /\ panels[p] = "live"
    /\ FreeSlot(t)
    /\ \E orgInput \in PanelOrgInputs, patInput \in Tokens \cup {Absent} :
         threads' = HandleAuthenticate(p, t, orgInput, patInput)
    /\ UNCHANGED <<store, bootPc, boot, isUserAuthenticated, provider, panels,
                   currentPanel, timers,
                   call, served>>

\* _handleMessage, type 'cancel' (lines 354-356).  Nothing stops the
\* invocations of this panel that are still in flight.
PanelCancel(p) ==
    /\ panels[p] = "live"
    /\ Dispose(p, "cancelled")
    /\ UNCHANGED <<store, bootPc, boot, isUserAuthenticated, provider, threads, timers,
                   call, served>>

\* The user closes the panel's tab: onDidDispose runs dispose() (line 276).
PanelClose(p) ==
    /\ panels[p] = "live"
    /\ Dispose(p, "closed")
    /\ UNCHANGED <<store, bootPc, boot, isUserAuthenticated, provider, threads, timers,
                   call, served>>

\* The timer a successful sign-in set fires (line 341).
TimerFire(p) ==
    /\ p \in timers
    /\ Dispose(p, "closed")
    /\ timers' = timers \ {p}
    /\ UNCHANGED <<store, bootPc, boot, isUserAuthenticated, provider, threads,
                   call, served>>

\* AuthenticationPanel.kill() (lines 256-259).
Kill ==
    /\ bootPc = "done"
    /\ currentPanel # 0
    /\ Dispose(currentPanel, "closed")
    /\ UNCHANGED <<store, bootPc, boot, isUserAuthenticated, provider, threads, timers,
                   call, served>>

\* ---------------------------------------------------------- the tree view
\* extension.ts lines 39-48: the provider is created and the tree view is
\* registered after the awaits of the restore.
TreeViewRegisteredEarly == TRUE

TreeViewRegistered == bootPc = "done"

\* The tree view asks the provider for its root items (getChildren()).
GetChildren ==
    /\ TreeViewRegistered
    /\ served' = RootChildren(provider)
    /\ UNCHANGED <<store, bootPc, boot, isUserAuthenticated, provider, threads,
                   panels, currentPanel, timers, call>>

\* ------------------------------------------------------------ direct calls
AppVars == <<store, bootPc, boot, isUserAuthenticated, provider, threads, panels,
             currentPanel, timers, served>>

\* validatePAT(pat), lines 34-72.
CallValidatePAT ==
    /\ call.fn = "validatePAT"
    /\ call.pc = "called"
    /\ \E resp \in IdentityResponses :
         call' = [call EXCEPT !.idResp = resp,
                              !.patResult = ValidatePAT(resp, call.pat),
                              !.log = Append(@, IdentityRequest(call.pat)),
                              !.fetches = @ + 1, !.pc = "returned"]
    /\ UNCHANGED AppVars

\* verifyUserRole(pat, org, username, requiredRoles), lines 82-144.
CallVerifyUserRole ==
    /\ call.fn = "verifyUserRole"
    /\ call.pc = "called"
    /\ \E resp \in MembershipResponses :
         call' = [call EXCEPT !.roleResp = resp,
                              !.roleResult = VerifyUserRole(resp, call.requiredRoles),
                              !.log = Append(@, MembershipRequest(call.pat, call.org,
                                                                  Owner(call.pat))),
                              !.fetches = @ + 1, !.pc = "returned"]
    /\ UNCHANGED AppVars

\* authenticateUser(pat, org, requiredRoles), lines 157-164.
CallAuthValidate ==
    /\ call.fn = "authenticateUser"
    /\ call.pc = "called"
    /\ \E resp \in IdentityResponses :
         LET patResult == ValidatePAT(resp, call.pat)
             c == [call EXCEPT !.idResp = resp, !.patResult = patResult,
                               !.log = Append(@, IdentityRequest(call.pat)),
                               !.fetches = @ + 1]
         IN call' = IF PatFailed(patResult)
                    THEN [c EXCEPT !.auth = AuthAfterValidate(patResult),
                                   !.pc = "returned"]
                    ELSE [c EXCEPT !.pc = "verifyUserRole"]
    /\ UNCHANGED AppVars

\* authenticateUser, lines 166-187.
CallAuthVerify ==
    /\ call.fn = "authenticateUser"
    /\ call.pc = "verifyUserRole"
    /\ \E resp \in MembershipResponses :
         LET roleResult == VerifyUserRole(resp, call.requiredRoles)
         IN call' = [call EXCEPT !.roleResp = resp, !.roleResult = roleResult,
                                 !.auth = AuthAfterVerify(call.patResult.user, roleResult),
                                 !.log = Append(@, MembershipRequest(call.pat, call.org,
                                                        call.patResult.user)),
                                 !.fetches = @ + 1, !.pc = "returned"]
    /\ UNCHANGED AppVars

\* showAuthenticationDialog lines 86-92: its authenticateUser(pat, org,
\* ['admin', 'member']) has failed and the error is turned into the text the
\* dialog returns.
CallGetDetailedErrorMessage ==
    /\ call.fn = "authenticateUser"
    /\ call.pc = "returned"
    /\ call.requiredRoles = RequiredRoles
    /\ ~call.auth.success
    /\ call.detail = NoDetail
    /\ call' = [call EXCEPT !.detail = GetDetailedErrorMessage(call.auth.error, call.org)]
    /\ UNCHANGED AppVars

\* SecureStorage.isAuthenticated(), lines 89-93: two local reads.
CallIsAuthenticated ==
    /\ call.fn = "isAuthenticated"
    /\ call.pc = "called"
    /\ call' = [call EXCEPT !.isAuth = IsAuthenticated(store), !.pc = "returned"]
    /\ UNCHANGED AppVars

\* filterItemsByRole(items), lines 106-118: it reads this.userRole and its
\* argument.
CallFilterItemsByRoleUnlessSignedOut ==
    /\ call.fn = "filterItemsByRole"
    /\ call.pc = "called"
    /\ call' = [call EXCEPT !.children =
                                IF provider.isAuthenticated
                                THEN FilterItemsByRole(call.items, provider.userRole)
                                ELSE << >>,
                            !.pc = "returned"]
    /\ UNCHANGED AppVars

CallFilterItemsByRole ==
    /\ call.fn = "filterItemsByRole"
    /\ call.pc = "called"
    /\ call' = [call EXCEPT !.children = FilterItemsByRole(call.items, provider.userRole),
                            !.pc = "returned"]
    /\ UNCHANGED AppVars

\* getChildren(element), lines 128-173, over a provider that holds call.items
\* (as the children of element, or as its own items for the root).
CallGetChildren ==
    /\ call.fn = "getChildren"
    /\ call.pc = "called"
    /\ call' = [call EXCEPT !.children = GetChildrenOf(provider, call.items, call.element),
                            !.pc = "returned"]
    /\ UNCHANGED AppVars

\* The messages _handleMessage posts to the webview (lines 302-305, 309).
TokenRequired == [type |-> "error", error |-> "Personal Access Token is required"]

Authenticating == [type |-> "authenticating", error |-> Absent]

\* _handleMessage of the live panel is given an 'authenticate' message
\* (lines 297-311): the fields are trimmed, a message without token is
\* answered with an error, any other starts the handler's sign-in.
CallHandleMessage ==
    /\ call.fn = "_handleMessage"
    /\ call.pc = "called"
    /\ panels[1] = "live"
    /\ LET org == TrimmedField(call.message, "org")
           pat == TrimmedField(call.message, "pat")
       IN /\ threads' = HandleAuthenticate(1, 1, org, pat)
          /\ call' = IF ~Truthy(pat)
                     THEN [call EXCEPT !.posted = Append(@, TokenRequired),
                                       !.pc = "returned"]
                     ELSE [call EXCEPT !.posted = Append(@, Authenticating),
                                       !.pc = "authenticateUser"]
    /\ UNCHANGED <<store, bootPc, boot, isUserAuthenticated, provider, panels,
                   currentPanel, timers, served>>

\* The itemsExplorer.deleteItem command once the user has confirmed
\* (extension.ts lines 109-113): deleteItem(item.id), then refresh().
CallDeleteItem ==
    /\ call.fn = "deleteItem"
    /\ call.pc = "called"
    /\ call' = [call EXCEPT !.items = DeleteItem(call.items, call.id),
                            !.pc = "deleted"]
    /\ UNCHANGED AppVars

\* After the refresh the tree view asks again: for the root, or for a
\* folder the root listing gave it.
CallGetChildrenAfterDelete ==
    /\ call.fn = "deleteItem"
    /\ call.pc = "deleted"
    /\ \E element \in {Absent} \cup {call.items[i].id : i \in 1..Len(call.items)} :
         call' = [call EXCEPT
                    !.element = element,
                    !.children = GetChildrenOf(provider,
                                     IF element = Absent THEN call.items
                                     ELSE Children(element), element),
                    !.pc = "returned"]
    /\ UNCHANGED AppVars

\* showSignInWebView, lines 7-18: the webview panel is created and shown,
\* and the function awaits the promise its message listener resolves.
CallShowSignInWebView ==
    /\ call.fn = "showSignInWebView"
    /\ call.pc = "called"
    /\ call' = [call EXCEPT !.webview = "open", !.pc = "awaitMessage"]
    /\ UNCHANGED AppVars

\* Lines 22-34: the webview posts 'signIn' or 'cancel'; the listener
\* resolves the promise, the panel is disposed and the result is returned.
SignInMessage ==
    /\ call.fn = "showSignInWebView"
    /\ call.pc = "awaitMessage"
    /\ call.webview = "open"
    /\ \E command \in {"signIn", "cancel"} :
         call' = [call EXCEPT !.result = (command = "signIn"),
                              !.webview = "disposed", !.pc = "returned"]
    /\ UNCHANGED AppVars

\* The user closes the panel's tab.  The function registered no
\* onDidDispose listener: the promise stays pending, and a disposed webview
\* posts no message.
SignInPanelClosed ==
    /\ call.fn = "showSignInWebView"
    /\ call.pc = "awaitMessage"
    /\ call.webview = "open"
    /\ call' = [call EXCEPT !.webview = "closedByUser"]
    /\ UNCHANGED AppVars

\* validatePAT or filterItemsByRole is called a second time with the same
\* arguments.  Between the two calls of filterItemsByRole the authenticated
\* flag, the user of the provider and the store may have changed; its role
\* and the items have not.
CallAgain ==
    /\ call.fn \in {"validatePAT", "filterItemsByRole"}
    /\ call.pc = "returned"
    /\ ~call.again
    /\ call' = [call EXCEPT !.again = TRUE, !.pc = "called",
                            !.prevIdResp = call.idResp,
                            !.prevPatResult = call.patResult,
                            !.prevChildren = call.children]
    /\ IF call.fn = "filterItemsByRole"
       THEN /\ provider' \in {q \in ProviderInputs : q.userRole = provider.userRole}
            /\ store' \in {EmptyStore,
                           [pat |-> "ghp_T1", org |-> DefaultOrg, user |-> "alice",
                            role |-> "admin"]}
       ELSE UNCHANGED <<provider, store>>
    /\ UNCHANGED <<bootPc, boot, isUserAuthenticated, threads, panels, currentPanel,
                   timers, served>>

\* ------------------------------------------------------- specifications
\* The commands extension.ts registers.
StartCommand ==
    \/ \E t \in ThreadIds : StartAuthenticate(t)
    \/ \E t \in ThreadIds : StartLogout(t)

\* Activation and the steps of the commands in flight.
CommandStep ==
    \/ BootRead
    \/ BootValidate
    \/ BootHang
    \/ BootClearAll
    \/ BootCreateProvider
    \/ Reload
    \/ \E t \in ThreadIds : AuthPrompt(t)
    \/ \E t \in ThreadIds : AuthValidate(t)
    \/ \E t \in ThreadIds : AuthVerify(t)
    \/ \E t \in ThreadIds : Store(t)
    \/ \E t \in ThreadIds : AuthenticateFinish(t)
    \/ \E t \in ThreadIds : Return(t)
    \/ \E t \in ThreadIds : LogoutClear(t)
    \/ \E t \in ThreadIds : LogoutFinish(t)

\* The AuthenticationPanel: its lifecycle and its message handler.
PanelStep ==
    \/ CreateOrShow
    \/ \E p \in PanelIds : PanelCancel(p)
    \/ \E p \in PanelIds : PanelClose(p)
    \/ \E p \in PanelIds : TimerFire(p)
    \/ Kill
    \/ \E t \in ThreadIds : PanelFinish(t)

StartPanelMessage == \E p \in PanelIds, t \in ThreadIds : PanelAuthenticate(p, t)

\* The extension as extension.ts wires it: nothing there calls
\* AuthenticationPanel.createOrShow, and nothing keeps two command
\* invocations apart.
Next == StartCommand \/ CommandStep

Spec == Init /\ [][Next]_vars

\* Every entry point of the repository, the panel over the same SecureStorage
\* included, under a caller that starts an invocation only when none is in
\* flight.  The panel's lifecycle ('cancel', close, timer, kill) stays free.
NextSeq ==
    \/ Quiescent /\ StartCommand
    \/ Quiescent /\ StartPanelMessage
    \/ CommandStep
    \/ PanelStep

SeqSpec == Init /\ [][NextSeq]_vars

\* The same, over whatever an earlier window left in the store.
AnyStoreSpec == InitAnyStore /\ [][NextSeq]_vars

\* Activation, the commands run one at a time, and the tree view asking for
\* its root items, over whatever an earlier window left in the store.
NextView ==
    \/ Quiescent /\ StartCommand
    \/ CommandStep
    \/ GetChildren

ViewSpec == InitAnyStore /\ [][NextView]_vars

\* The AuthenticationPanel alone, after activation: its lifecycle, and its
\* 'authenticate' messages handled one at a time.
NextPanels ==
    \/ PanelStep
    \/ Quiescent /\ StartPanelMessage
    \/ \E t \in ThreadIds : AuthValidate(t)
    \/ \E t \in ThreadIds : AuthVerify(t)
    \/ \E t \in ThreadIds : Store(t)
    \/ \E t \in ThreadIds : Return(t)

PanelSpec == InitPanels /\ [][NextPanels]_vars

\* The functions of the core, each called once on inputs of the caller's
\* choice and answered by the network as it pleases.
NextCalls ==
    \/ CallValidatePAT
    \/ CallVerifyUserRole
    \/ CallAuthValidate
    \/ CallAuthVerify
    \/ CallGetDetailedErrorMessage
    \/ CallIsAuthenticated
    \/ CallFilterItemsByRole
    \/ CallGetChildren
    \/ CallAgain
    \/ CallHandleMessage
    \/ CallDeleteItem
    \/ CallGetChildrenAfterDelete
    \/ CallShowSignInWebView
    \/ SignInMessage
    \/ SignInPanelClosed
    \/ \E t \in ThreadIds : AuthValidate(t)
    \/ \E t \in ThreadIds : AuthVerify(t)
    \/ \E t \in ThreadIds : Store(t)
    \/ \E t \in ThreadIds : PanelFinish(t)
    \/ \E t \in ThreadIds : Return(t)

CallSpec == InitCalls /\ [][NextCalls]_vars

\* ----------------------------------------------------------------- claims
\* C1: once validatePAT has returned a failure (401, another status, a
\* transport error), the sign-in makes no membership lookup: its count of
\* verifyUserRole calls stays 0, authenticateUser has returned, and what it
\* returned is the verifier's failure.
C1_NoRoleLookupAfterFailedValidation ==
    \A t \in ThreadIds :
        LET th == threads[t]
        IN (th.idCalls = 1 /\ ~th.patResult.success)
           => /\ th.roleCalls = 0
              /\ th.pc = "done"
              /\ th.auth = AuthFailure(th.patResult.error)

C1_Witness ==
    \E t \in ThreadIds :
        /\ threads[t].kind = "panel"
        /\ threads[t].idCalls = 1
        /\ threads[t].patResult.errorCode = "401"
        /\ threads[t].pc = "done"

\* A sign-in that holds a failure returned by authenticateUser.
FailedSignIn(th) ==
    /\ th.kind \in SignInKinds
    /\ th.idCalls = 1
    /\ th.pc \in StorePcs \cup {"finish", "done"}
    /\ ~th.auth.success

\* C2: no step of a sign-in whose authenticateUser result is a failure, the
\* step that receives the failure included, writes the store or changes the
\* authenticated flag, the user or the role the display holds.
C2_FailedSignInChangesNothing ==
    [][\A t \in ThreadIds :
          ((FailedSignIn(threads[t]) \/ FailedSignIn(threads'[t]))
           /\ threads'[t] # threads[t])
          => UNCHANGED <<store, provider, isUserAuthenticated>>]_vars

C2_Witness ==
    \E t \in ThreadIds :
        /\ FailedSignIn(threads[t])
        /\ threads[t].roleCalls = 1
        /\ threads[t].pc = "done"
        /\ store.pat \in Tokens /\ store.user \in Handles /\ store.role \in Roles
        /\ provider = SetAuthenticationState(TRUE, store.user, store.role)

\* C3: when activation found a session recorded and validatePAT on the stored
\* token failed, for whatever reason, activation ends with all four fields
\* absent, isAuthenticated() false and the provider unauthenticated.
C3_InvalidStoredTokenEndsInNoSession ==
    [][(boot.validated = "failed" /\ bootPc' = "done")
       => /\ store' = EmptyStore
          /\ ~IsAuthenticated(store')
          /\ ~provider'.isAuthenticated
          /\ ~isUserAuthenticated']_vars

C3_Witness ==
    /\ bootPc = "createProvider"
    /\ boot.validated = "failed"
    /\ boot.isAuthenticated
    /\ boot.storedRole \in Roles
    /\ store = EmptyStore

\* A store whose four fields are all present or all absent.
AllOrNothing(s) ==
    \/ \A f \in Fields : Truthy(s[f])
    \/ \A f \in Fields : ~Truthy(s[f])

\* C4: whenever the commands run so far have all completed, however the writes
\* of a sign-in and of a logout interleaved, the stored session is fully
\* present or fully absent.
C4_CompleteOrAbsentAfterOverlap ==
    (bootPc = "done" /\ Quiescent) => AllOrNothing(store)

\* A sign-in the user has cancelled: the input box was dismissed, or the
\* panel was sent 'cancel' while its handler was in flight.
Cancelled(th) ==
    \/ th.kind = "authenticate" /\ th.auth.error = "Cancelled"
    \/ th.kind = "panel" /\ th.panel # 0 /\ panels[th.panel] = "cancelled"

\* C5: no later step of a cancelled sign-in writes a field of the store.
C5_CancelledSignInNeverWrites ==
    [][\A t \in ThreadIds :
          (Cancelled(threads[t]) /\ threads'[t] # threads[t])
          => store' = store]_vars

\* The session invariant of the data model.
SessionInvariant(s) ==
    /\ Truthy(s.pat) <=> Truthy(s.user)
    /\ Truthy(s.role) => (Truthy(s.user) /\ Truthy(s.org))

\* C6: starting from an empty store, whenever the operations run one at a
\* time have all completed (sign-ins that succeeded or failed, logouts,
\* restores at startup), the token is stored iff the handle is, and a stored
\* role comes with a stored handle and organization.
C6_SessionAllOrNothing ==
    (bootPc = "done" /\ Quiescent) => SessionInvariant(store)

C6_Witness ==
    /\ bootPc = "done"
    /\ Quiescent
    /\ IsAuthenticated(store)
    /\ provider.isAuthenticated
    /\ store.role = "member"

\* An invocation whose writes to the store are pending.
Writing(th) == th.pc \in StorePcs \cup ClearAllPcs

\* C7: at most one operation that writes the store is in flight.
C7_SingleWriter ==
    Cardinality({t \in ThreadIds : Writing(threads[t])}) <= 1

\* C8: once the four writes of clearAll() are done, whatever the store held
\* before (nothing included), isAuthenticated() is false and the four getters
\* return absent.
C8_ClearAllLeavesNothing ==
    \A t \in ThreadIds :
        (threads[t].kind = "logout" /\ threads[t].pc \in {"finish", "done"})
        => /\ ~IsAuthenticated(store)
           /\ \A f \in Fields : store[f] = Absent

C8_Witness ==
    \E t \in ThreadIds :
        /\ threads[t].kind = "logout"
        /\ threads[t].pc = "finish"
        /\ provider.isAuthenticated
        /\ provider.userRole = "admin"
        /\ store = EmptyStore

\* C9: when a sign-in for which authenticateUser(T, org, roles) returned
\* handle h and role r has made its writes, with no other operation in
\* between, the store holds exactly T, org, h and r and isAuthenticated() is
\* true.
C9_StoreHoldsTheAuthenticatedSession ==
    \A t \in ThreadIds :
        LET th == threads[t]
        IN (th.kind \in SignInKinds /\ th.pc = "finish")
           => /\ th.auth.success
              /\ th.auth.user = Owner(th.pat)
              /\ store = [pat |-> th.pat, org |-> th.org,
                          user |-> th.auth.user, role |-> th.auth.role]
              /\ IsAuthenticated(store)

C9_Witness ==
    \E t \in ThreadIds :
        /\ threads[t].kind = "panel"
        /\ threads[t].pc = "finish"
        /\ store = [pat |-> "ghp_T2", org |-> "acme", user |-> "bob", role |-> "admin"]

\* What a successful call of authenticateUser(th.pat, th.org, ...) allows to
\* be stored in field f.
AuthenticatedValue(f, th) ==
    CASE f = "pat" -> th.pat
      [] f = "org" -> th.org
      [] f = "user" -> th.patResult.user
      [] OTHER -> th.auth.role

\* C10: a field of the store is given a value only by the storing step of a
\* sign-in for which authenticateUser has returned success, and the value is
\* the token or organization of that call, or the handle or role it returned.
C10_OnlyAuthenticatedSignInWrites ==
    [][\A f \in Fields :
          (store'[f] # store[f] /\ store'[f] # Absent)
          => \E t \in ThreadIds :
               LET th == threads[t]
               IN /\ th.kind \in SignInKinds
                  /\ th.pc \in StorePcs
                  /\ threads'[t] # th
                  /\ th.idCalls = 1 /\ th.roleCalls = 1
                  /\ th.patResult.success
                  /\ th.auth.success
                  /\ th.auth.role \in Roles
                  /\ store'[f] = AuthenticatedValue(f, th)]_vars

C10_Witness ==
    \E t \in ThreadIds :
        /\ threads[t].kind = "authenticate"
        /\ threads[t].pc = "storeRole"
        /\ threads[t].auth.role = "admin"
        /\ store.user = "alice"
        /\ store.role = "member"

\* A direct call of fn that has returned.
Returned(fn) == call.fn = fn /\ call.pc = "returned"

\* C11: for every membership response with status 200, verifyUserRole returns
\* hasAccess = true exactly when the returned role is one of the requested
\* roles and the returned state is 'active': a pending membership never has
\* access, ['admin'] against an active admin has, ['admin'] against an active
\* member has not.
C11_HasAccessIffRequestedRoleAndActive ==
    (Returned("verifyUserRole") /\ call.roleResp.status = 200)
    => LET m == call.roleResp.membership
           hasAccess == call.roleResult.hasAccess
       IN /\ hasAccess <=> (m.role \in call.requiredRoles /\ m.state = "active")
          /\ m.state = "pending" => ~hasAccess
          /\ (call.requiredRoles = {"admin"} /\ m = [role |-> "admin", state |-> "active"])
             => hasAccess
          /\ (call.requiredRoles = {"admin"} /\ m = [role |-> "member", state |-> "active"])
             => ~hasAccess

C11_Witness ==
    /\ Returned("verifyUserRole")
    /\ call.roleResp.status = 200
    /\ call.requiredRoles = {"admin"}
    /\ call.roleResp.membership = [role |-> "admin", state |-> "active"]
    /\ call.roleResult.success
    /\ call.roleResult.hasAccess

\* C12: whenever authenticateUser returns success, the role it returns is
\* defined, is one of the requested roles and is the role of the membership
\* the endpoint returned, that membership is active, and the user it
\* returns is the identity validatePAT returned for the same token.
C12_SuccessCarriesActiveRequestedRole ==
    (Returned("authenticateUser") /\ call.auth.success)
    => /\ call.auth.role \in Roles
       /\ call.auth.role \in call.requiredRoles
       /\ call.roleResp.status = 200
       /\ call.auth.role = call.roleResp.membership.role
       /\ call.roleResp.membership.state = "active"
       /\ call.patResult.success
       /\ call.idResp.status = 200
       /\ Truthy(call.auth.user)
       /\ call.auth.user = call.patResult.user
       /\ call.fetches = 2

C12_Witness ==
    /\ Returned("authenticateUser")
    /\ call.auth.success
    /\ call.requiredRoles = {"member"}
    /\ call.auth.role = "member"
    /\ call.auth.user = "bob"

ActivateStep == BootRead \/ BootValidate \/ BootClearAll \/ BootCreateProvider

\* C14: activation cannot be blocked forever by an identity endpoint that
\* never responds: as long as it has not settled (authenticated or not, the
\* provider created), a step of it remains possible, because the validatePAT
\* call it awaits is ended by a timeout.
C14_RestoreAlwaysSettles == bootPc # "done" => ENABLED ActivateStep

\* The ids of the application's items.
ApplicationItems == {InitialItems[i].id : i \in 1..Len(InitialItems)}

\* C15: the restore runs exactly once per activation, and the tree view is
\* given nothing, an application item least of all, before activation has
\* settled and created the provider.
C15_RestoreOnceBeforeAnythingIsServed ==
    /\ boot.restores = (IF bootPc = "read" THEN 0 ELSE 1)
    /\ served # NotServed => bootPc = "done"
    /\ (\E i \in 1..Len(served) : served[i] \in ApplicationItems)
       => (bootPc = "done" /\ boot.restores = 1)

C15_Witness ==
    /\ bootPc = "done"
    /\ boot.restores = 1
    /\ isUserAuthenticated
    /\ store.role = "member"
    /\ served = <<"user-status", "folder-1", "folder-2", "item-3">>

\* C16: when isAuthenticated() is false at startup, activation goes from its
\* reads straight to creating the provider and ends unauthenticated, having
\* made no network call and having left every field of the store as it was.
C16_NoRecordedSessionSettlesWithoutNetwork ==
    [][/\ (bootPc = "read" /\ ~IsAuthenticated(store) /\ bootPc' # bootPc)
          => /\ bootPc' = "createProvider"
             /\ ~boot'.isAuthenticated
             /\ boot'.idCalls = 0 /\ boot'.roleCalls = 0
             /\ store' = store
       /\ (bootPc = "createProvider" /\ ~boot.isAuthenticated /\ bootPc' # bootPc)
          => /\ bootPc' = "done"
             /\ ~isUserAuthenticated'
             /\ ~provider'.isAuthenticated
             /\ boot.idCalls = 0 /\ boot.roleCalls = 0
             /\ store' = store
             /\ store.user = boot.storedUser
             /\ store.org = boot.storedOrg
             /\ store.role = boot.storedRole]_vars

C16_Witness ==
    /\ bootPc = "createProvider"
    /\ boot.restores = 1
    /\ ~boot.isAuthenticated
    /\ store.pat = Absent
    /\ store.user = "alice"
    /\ store.role = "admin"

\* C17: isAuthenticated() returns true exactly when the stored token and the
\* stored handle are both present and non-empty, whatever the organization
\* and the role are, and it makes no network call.
C17_IsAuthenticatedIffTokenAndHandle ==
    Returned("isAuthenticated")
    => /\ call.isAuth <=> (/\ store.pat # Absent /\ store.pat # ""
                           /\ store.user # Absent /\ store.user # "")
       /\ call.fetches = 0
       /\ call.idResp = NoIdentityResponse
       /\ call.roleResp = NoMembershipResponse

C17_Witness ==
    /\ Returned("isAuthenticated")
    /\ call.isAuth
    /\ store.org = Absent
    /\ store.role = Absent

RoleResultFor(status, requiredRoles) ==
    VerifyUserRole([kind |-> "response", status |-> status, body |-> "json",
                    membership |-> NoMembership], requiredRoles)

\* C19: verifyUserRole answers a 404 with success = true, hasAccess = false;
\* a 401 and a 403 with success = false and two different reasons; every other
\* status and every transport failure with success = false, hasAccess = false.
C19_MembershipStatusMapping ==
    Returned("verifyUserRole")
    => LET resp == call.roleResp
           res == call.roleResult
           r401 == RoleResultFor(401, call.requiredRoles)
           r403 == RoleResultFor(403, call.requiredRoles)
       IN /\ (resp.kind = "response" /\ resp.status = 404)
             => (res.success /\ ~res.hasAccess)
          /\ (resp.kind = "response" /\ resp.status \in {401, 403})
             => /\ ~res.success /\ ~res.hasAccess
                /\ Truthy(res.error)
                /\ res.error = (IF resp.status = 401 THEN r401.error ELSE r403.error)
                /\ r401.error # r403.error
          /\ (resp.kind = "throw" \/ (resp.kind = "response"
                                       /\ resp.status \notin {200, 401, 403, 404}))
             => (~res.success /\ ~res.hasAccess)
          /\ (resp.kind = "response" /\ resp.status = 200 /\ resp.body = "invalid")
             => (~res.success /\ ~res.hasAccess)

C19_Witness ==
    /\ Returned("verifyUserRole")
    /\ call.roleResp.status = 403
    /\ ~call.roleResult.success
    /\ call.roleResult.error
         = "Insufficient permissions. PAT must have read:org or admin:org scope"

\* Every reason authenticateUser returns for a failure of validatePAT.
IdentityFailureReasons ==
    UNION {{AuthAfterValidate(ValidatePAT(r, p)).error :
              r \in {x \in IdentityResponses : PatFailed(ValidatePAT(x, p))}} :
           p \in Tokens}

\* Every reason authenticateUser returns when verifyUserRole has returned
\* success = false.
ResolverFailureReasons(requiredRoles) ==
    {AuthAfterVerify("alice", VerifyUserRole(r, requiredRoles)).error :
       r \in {x \in MembershipResponses : ~VerifyUserRole(x, requiredRoles).success}}

\* authenticateUser has returned after a verifyUserRole that answered
\* success = true, hasAccess = false.
AccessDenied ==
    /\ Returned("authenticateUser")
    /\ call.fetches = 2
    /\ call.roleResult.success
    /\ ~call.roleResult.hasAccess

\* The reason authenticateUser returns for a pending membership.
PendingReason(requiredRoles) ==
    AuthAfterVerify("alice",
        VerifyUserRole([kind |-> "response", status |-> 200, body |-> "json",
                        membership |-> [role |-> "member", state |-> "pending"]],
                       requiredRoles)).error

AuthResultFor(idResp, roleResp, pat, requiredRoles) ==
    LET patResult == ValidatePAT(idResp, pat)
    IN IF PatFailed(patResult) THEN AuthAfterValidate(patResult)
       ELSE AuthAfterVerify(patResult.user, VerifyUserRole(roleResp, requiredRoles))

\* The failure outcome those answers make: a bad token (401 from either
\* endpoint), no access (404, wrong role or pending), the network unavailable
\* (either fetch rejected), insufficient scope (403 from the membership
\* endpoint); "other" for a success and for every other failure.
OutcomeFor(idResp, roleResp, pat, requiredRoles) ==
    LET patResult == ValidatePAT(idResp, pat)
        roleResult == VerifyUserRole(roleResp, requiredRoles)
    IN IF idResp.kind = "throw" THEN "network"
       ELSE IF idResp.status = 401 THEN "bad token"
       ELSE IF PatFailed(patResult) THEN "other"
       ELSE IF roleResp.kind = "throw" THEN "network"
       ELSE IF roleResp.status = 401 THEN "bad token"
       ELSE IF roleResp.status = 403 THEN "scope"
       ELSE IF roleResult.success /\ ~roleResult.hasAccess THEN "no access"
       ELSE "other"

FailureOutcomes == {"bad token", "no access", "network", "scope"}

\* Every result authenticateUser returns for a given outcome.
ResultsOf(outcome) ==
    {AuthResultFor(i, m, p, rr) :
       <<i, m, p, rr>> \in
         {x \in IdentityResponses \X MembershipResponses \X Tokens \X (SUBSET Roles) :
            OutcomeFor(x[1], x[2], x[3], x[4]) = outcome}}

\* C21: the result authenticateUser returns for one of the four failure
\* outcomes bad token, no access, network unavailable and insufficient scope
\* is a failure that no call returns for another of the four.
C21_FailureOutcomesHaveDistinctResults ==
    Returned("authenticateUser")
    => LET outcome == OutcomeFor(call.idResp, call.roleResp, call.pat,
                                 call.requiredRoles)
       IN outcome \in FailureOutcomes
          => /\ ~call.auth.success
             /\ Truthy(call.auth.error)
             /\ \A other \in FailureOutcomes \ {outcome} :
                   call.auth \notin ResultsOf(other)

C21_Witness ==
    /\ Returned("authenticateUser")
    /\ call.fetches = 2
    /\ call.roleResp.status = 403
    /\ OutcomeFor(call.idResp, call.roleResp, call.pat, call.requiredRoles) = "scope"
    /\ call.auth.error
         = "Insufficient permissions. PAT must have read:org or admin:org scope"

\* C22: whatever the items, none included, filterItemsByRole returns the empty
\* list when the provider has no role.
C22_NoRoleSeesNothing ==
    (Returned("filterItemsByRole") /\ provider.userRole = Absent)
    => call.children = << >>

C22_Witness ==
    /\ Returned("filterItemsByRole")
    /\ provider.userRole = Absent
    /\ provider.isAuthenticated
    /\ Len(call.items) = 2
    /\ call.children = << >>

\* C23: whatever the items, filterItemsByRole returns them all, in their
\* order, to an admin, the ones tagged 'admin-only' included.
C23_AdminSeesEverything ==
    (Returned("filterItemsByRole") /\ provider.userRole = "admin")
    => call.children = call.items

C23_Witness ==
    /\ Returned("filterItemsByRole")
    /\ provider.userRole = "admin"
    /\ Len(call.children) = 2
    /\ call.children[1].itemType = <<"admin", "-", "only", "-", "folder">>
    /\ call.children[2].itemType = <<"folder">>

\* The item types of this model whose text contains 'admin-only'.
PrivilegedTypes ==
    {<<"admin", "-", "only">>, <<"admin", "-", "only", "-", "folder">>,
     <<"folder", "-", "admin", "-", "only">>}

\* The items of a list that are not privileged, in their order.
RECURSIVE Unprivileged(_)
Unprivileged(items) ==
    IF items = << >> THEN << >>
    ELSE IF Head(items).itemType \in PrivilegedTypes THEN Unprivileged(Tail(items))
    ELSE <<Head(items)>> \o Unprivileged(Tail(items))

\* C24: to a member filterItemsByRole returns exactly the items whose
\* itemType does not contain 'admin-only', in their original order, and
\* getChildren returns a member no such item, for the root or for an element.
C24_MemberSeesNoPrivilegedItem ==
    /\ (Returned("filterItemsByRole") /\ provider.userRole = "member")
       => call.children = Unprivileged(call.items)
    /\ (Returned("getChildren") /\ provider.userRole = "member")
       => /\ \A i \in 1..Len(call.children) :
                call.children[i].itemType \notin PrivilegedTypes
          /\ call.element # Absent => call.children = Unprivileged(call.items)
          /\ (call.element = Absent /\ provider.isAuthenticated)
             => Tail(call.children) = Unprivileged(call.items)

C24_Witness ==
    /\ Returned("getChildren")
    /\ provider.userRole = "member"
    /\ call.element # Absent
    /\ Len(call.items) = 3
    /\ call.items[2].itemType = <<"folder", "-", "admin", "-", "only">>
    /\ Len(call.children) = 2
    /\ call.children[2].id = "item-3"

C26_LogoutLeavesNothing ==
    [][\A t \in ThreadIds :
          (threads[t].kind = "logout" /\ threads[t].pc = "finish"
           /\ threads'[t].pc = "done")
          => /\ store' = EmptyStore
             /\ ~isUserAuthenticated'
             /\ provider' = [isAuthenticated |-> FALSE, authenticatedUser |-> Absent,
                             userRole |-> Absent]
             /\ RootChildren(provider') = <<"empty-state">>]_vars

\* C27: the role the display is given when the extension loads was obtained
\* from the membership endpoint during that load; a role that is merely in
\* the local store is not exposed to an authenticated display.
C27_DisplayedRoleComesFromGitHub ==
    [][(bootPc = "createProvider" /\ bootPc' = "done"
        /\ provider'.isAuthenticated /\ Truthy(provider'.userRole))
       => boot.roleCalls >= 1]_vars

\* The endpoint answers with the identity of the token's owner.
ValidAnswer(resp) == resp.kind = "response" /\ resp.status = 200 /\ resp.body = "json"

C29_OneLookupPerStageInOrder ==
    call.fn = "authenticateUser"
    => /\ Len(call.log) <= 2
       /\ call.fetches = Len(call.log)
       /\ call.pc = "called" => Len(call.log) = 0
       /\ call.pc # "called" => Len(call.log) >= 1
       /\ Len(call.log) >= 1
          => call.log[1] = [endpoint |-> "user", token |-> call.pat,
                            org |-> Absent, login |-> Absent]
       /\ call.pc = "verifyUserRole" => Len(call.log) = 1
       /\ Len(call.log) = 2
          => /\ call.pc = "returned"
             /\ call.patResult.success
             /\ call.patResult.user \in {"alice", "bob"}
             /\ call.log[2] = [endpoint |-> "membership", token |-> call.pat,
                               org |-> call.org, login |-> call.patResult.user]
       /\ (call.pc = "returned" /\ Len(call.log) = 1)
          => (~call.patResult.success \/ call.patResult.user = Absent)

C29_Witness ==
    /\ Returned("authenticateUser")
    /\ Len(call.log) = 2
    /\ call.log[1].endpoint = "user"
    /\ call.log[2].endpoint = "membership"
    /\ call.log[2].login = "bob"
    /\ call.log[2].token = "ghp_T2"
    /\ call.auth.success

\* C30: whenever activation has finished and no command handler is in
\* flight, a display that shows an authenticated user is backed by a stored
\* session (isAuthenticated() true) with the same username and the same
\* role, also after avro.authenticate and avro.logout have interleaved.
C30_DisplayedSessionIsStored ==
    (bootPc = "done" /\ Quiescent /\ provider.isAuthenticated)
    => /\ IsAuthenticated(store)
       /\ store.user = provider.authenticatedUser
       /\ store.role = provider.userRole

\* C31: a provider whose authenticated flag is false holds no username and
\* no role, so getChildren(element) returns nothing for the folders it
\* holds; in particular after an activation that cleared the store because
\* the stored token was rejected.
C31_UnauthenticatedProviderHasNoData ==
    ~provider.isAuthenticated
    => /\ provider.authenticatedUser = Absent
       /\ provider.userRole = Absent
       /\ \A id \in {"folder-1", "folder-2"} :
             GetChildrenOf(provider, Children(id), id) = << >>

\* The items of a list a role is entitled to, in their order.
EntitledItems(items, role) ==
    IF role = "admin" THEN items
    ELSE IF role = "member" THEN Unprivileged(items)
    ELSE << >>

\* C32: getChildren() for the root of an unauthenticated provider returns
\* exactly one placeholder item that runs avro.authenticate and none of the
\* provider's items; for an authenticated provider it returns the
\* user-status item first and after it exactly the role-filtered items.
C32_RootListingFollowsAuthentication ==
    (Returned("getChildren") /\ call.element = Absent)
    => IF ~provider.isAuthenticated
       THEN /\ Len(call.children) = 1
            /\ call.children[1].id = "empty-state"
            /\ call.children[1].itemType = <<"empty">>
            /\ call.children[1].command = "avro.authenticate"
       ELSE /\ Len(call.children) >= 1
            /\ call.children[1].id = "user-status"
            /\ call.children[1].command = "avro.logout"
            /\ Tail(call.children) = EntitledItems(call.items, provider.userRole)

C32_Witness ==
    /\ Returned("getChildren")
    /\ call.element = Absent
    /\ ~provider.isAuthenticated
    /\ provider.userRole = "admin"
    /\ Len(call.items) = 2
    /\ Len(call.children) = 1

C32_WitnessAuthenticated ==
    /\ Returned("getChildren")
    /\ call.element = Absent
    /\ provider.isAuthenticated
    /\ provider.userRole = "member"
    /\ Len(call.items) = 3
    /\ Len(call.children) = 3
    /\ call.children[1].id = "user-status"

\* C33: when avro.authenticate completes a successful sign-in, whatever the
\* store and the display held before it (a previous session, or nothing
\* after a logout), the store holds the token, the organization, the handle
\* and the role of the new authentication, and the display shows that
\* handle and that role; nothing of the previous session remains.
C33_SignInReplacesTheSession ==
    [][\A t \in ThreadIds :
          (threads[t].kind = "authenticate" /\ threads[t].pc = "finish"
           /\ threads'[t].pc = "done")
          => /\ threads[t].auth.success
             /\ store' = [pat |-> threads[t].pat, org |-> "avrocc",
                          user |-> threads[t].auth.user,
                          role |-> threads[t].auth.role]
             /\ store'.role \in {"admin", "member"}
             /\ provider' = [isAuthenticated |-> TRUE,
                             authenticatedUser |-> threads[t].auth.user,
                             userRole |-> threads[t].auth.role]]_vars

\* A sign-in as bob (admin) over the session of alice (member), which the
\* display still shows, has replaced the four stored fields and is about to
\* update the display.
C33_Witness ==
    /\ provider = [isAuthenticated |-> TRUE, authenticatedUser |-> "alice",
                   userRole |-> "member"]
    /\ store = [pat |-> "ghp_T2", org |-> "avrocc", user |-> "bob", role |-> "admin"]
    /\ \E t \in ThreadIds :
          /\ threads[t].kind = "authenticate"
          /\ threads[t].pc = "finish"
          /\ threads[t].auth.role = "admin"
          /\ ENABLED AuthenticateFinish(t)

LivePanels == {p \in DOMAIN panels : panels[p] = "live"}

\* C34: at most one authentication panel is alive at any time, and
\* AuthenticationPanel.currentPanel refers to the live panel exactly when
\* there is one, for every order of createOrShow, close, 'cancel', kill and
\* the delayed dispose() of a successful sign-in.
C34_CurrentPanelIsTheLivePanel ==
    /\ Cardinality(LivePanels) <= 1
    /\ currentPanel # 0 <=> LivePanels # {}
    /\ currentPanel # 0 => panels[currentPanel] = "live"

\* C35: whatever the store held when the window opened, a partially present
\* session included, when activation settles with no session (the display
\* is created unauthenticated) the store holds no token, as it must if all
\* four fields are to be absent.
C35_NoSessionLeavesNoToken ==
    [][(bootPc = "createProvider" /\ bootPc' = "done" /\ ~provider'.isAuthenticated)
       => store'.pat = Absent]_vars

\* A message field that is missing, empty or white space only.
Blank(message, field) ==
    \/ field \notin message.has
    \/ message[field] \in {<< >>, <<" ">>, <<" ", " ">>}

\* C36: an 'authenticate' message whose token is missing, empty or white
\* space only is answered with the error 'Personal Access Token is required'
\* and nothing else happens: no sign-in is started (so no network call and
\* no callback), the store is not written and no timer is set.  For any
\* other message the sign-in runs with the message's token, and with
\* 'avrocc' when the organization is missing or empty.
C36_MessageWithoutTokenIsRejected ==
    [][(call.fn = "_handleMessage" /\ call.pc = "called" /\ call'.pc # "called")
       => IF Blank(call.message, "pat")
          THEN /\ call'.pc = "returned"
               /\ call'.posted = <<[type |-> "error",
                                    error |-> "Personal Access Token is required"]>>
               /\ \A t \in ThreadIds : threads'[t] = Idle
               /\ store' = store
               /\ timers' = timers
               /\ provider' = provider
          ELSE /\ threads'[1].kind = "panel"
               /\ threads'[1].pc = "validatePAT"
               /\ threads'[1].pat \in {"ghp_T1", "ghp_T2"}
               /\ threads'[1].org = IF Blank(call.message, "org")
                                     THEN "avrocc" ELSE "acme"]_vars

\* A message with a token of white space and no organization was answered
\* with the error; the store still holds what it held.
C36_Witness ==
    /\ Returned("_handleMessage")
    /\ call.message.has = {"pat"}
    /\ call.message.pat = <<" ", " ">>
    /\ Len(call.posted) = 1
    /\ call.posted[1].type = "error"
    /\ store.user = "alice"
    /\ \A t \in ThreadIds : threads[t] = Idle

\* A message with a padded token and an empty organization signs in at
\* 'avrocc'.
C36_WitnessDefaultOrg ==
    /\ call.fn = "_handleMessage"
    /\ call.message.has = {"pat", "org"}
    /\ call.message.pat = <<" ", "ghp_T2", " ">>
    /\ call.message.org = << >>
    /\ threads[1].pc = "finish"
    /\ store = [pat |-> "ghp_T2", org |-> "avrocc", user |-> "bob", role |-> "admin"]

\* C37: showSignInWebView returns for every user behaviour: as long as it
\* has not returned, something that makes it return (a message that
\* resolves its promise) remains possible, also after the user has closed
\* the panel without sending 'signIn' or 'cancel'.
C37_SignInWebViewAlwaysReturns ==
    (call.fn = "showSignInWebView" /\ call.pc = "awaitMessage")
    => ENABLED SignInMessage

\* C38: after deleteItem(id) for the id of a displayed item, at the root or
\* inside a folder, a later getChildren call, for the root or for a folder,
\* returns no item with that id.
C38_DeletedItemIsNeverReturned ==
    (call.fn = "deleteItem" /\ call.pc = "returned")
    => \A i \in 1..Len(call.children) : call.children[i].id # call.id

\* The lookup of an authenticateUser call that failed, and how: the answer
\* of the identity endpoint when no membership lookup was made, else the
\* answer of the membership endpoint.
FailedLookup ==
    IF Len(call.log) = 1
    THEN [endpoint |-> "user", kind |-> call.idResp.kind, status |-> call.idResp.status]
    ELSE [endpoint |-> "membership", kind |-> call.roleResp.kind,
          status |-> call.roleResp.status]

\* C39: the dialog's message for a failed authenticateUser is that of the
\* failure's class: the invalid-token message for a token the identity
\* endpoint rejected (401), the access-denied (scope) message for a
\* membership lookup answered 403, the not-a-member message for one
\* answered 404, the network message for a transport failure, and the
\* generic troubleshooting text for no failure of these classes.
C39_MessageMatchesFailureClass ==
    (Returned("authenticateUser") /\ call.detail # NoDetail)
    => LET f == FailedLookup
           m == call.detail.message
       IN /\ (f.endpoint = "user" /\ f.kind = "response" /\ f.status = 401)
             => m = "Invalid Personal Access Token"
          /\ (f.endpoint = "membership" /\ f.kind = "response" /\ f.status = 403)
             => m = "Access denied"
          /\ (f.endpoint = "membership" /\ f.kind = "response" /\ f.status = 404)
             => m = "You are not a member"
          /\ f.kind = "throw" => m = "Network error"
          /\ m = "Troubleshooting"
             => ~(\/ f.kind = "throw"
                  \/ f.status = 401
                  \/ (f.endpoint = "membership" /\ f.status \in {403, 404}))

====
